---- MODULE Spec2Model ----
(***************************************************************************)
(* EventFd (sys_util/src/eventfd.rs): a wrapper owning one file descriptor *)
(* of a Linux eventfd counter.  The module models the wrapper's methods    *)
(* step by step together with the kernel calls they issue (eventfd, write, *)
(* read, poll, dup and the close done when the owned File is dropped), for *)
(* several threads working on shared and duplicated instances.             *)
(* The 64-bit counter is scaled down to Width bits; all the limits of the  *)
(* kernel object are kept relative to that width.                          *)
(***************************************************************************)
EXTENDS Integers, Sequences, FiniteSets, TLC

\* ---- bound of the model ----
Width == 2          \* bits of the scaled-down u64

\* ---- value ranges ----
U64Max == 2^Width - 1           \* largest u64 (0xffff...ff)
CounterMax == U64Max - 1        \* largest value the kernel counter holds
U64 == 0..U64Max
Threads == {"t1", "t2"}         \* threads calling into the wrapper
Fds == {1, 2}                   \* the process's descriptor table
Insts == {1, 2}                 \* the variables that hold an EventFd
Counters == {1, 2}              \* kernel objects: at most one per descriptor

\* eventfd(initval = 0, flags = 0)
InitVal == 0

\* ---- results as the methods return them ----
Ok(n) == [kind |-> "Ok", val |-> n, errno |-> "none"]
ErrLost(e) == [kind |-> "Err", val |-> 0, errno |-> "none"]
Err(e) == [kind |-> "Err", val |-> 0, errno |-> e]
NotReady == [kind |-> "NotReady", val |-> 0, errno |-> "none"]
ReadFailed(e) == [kind |-> "ReadFailed", val |-> 0, errno |-> e]
\* what a call did below the wrapper: the new() call its instance descends
\* from (0 = no instance), the kernel calls it issued, the errno of the
\* kernel call that failed ("none" = none failed), what poll() returned,
\* whether the thread slept in write() or read()
Did(f, n, e, p, z) == [fam |-> f, sys |-> n, kerr |-> e, poll |-> p, slept |-> z]
NoRet == [op |-> "none", kind |-> "none", val |-> 0, errno |-> "none", due |-> 0,
          fam |-> 0, sys |-> 0, kerr |-> "none", poll |-> 0, slept |-> FALSE]
Ret(o, r, d, g) ==
  [op |-> o, kind |-> r.kind, val |-> r.val, errno |-> r.errno, due |-> d,
   fam |-> g.fam, sys |-> g.sys, kerr |-> g.kerr, poll |-> g.poll,
   slept |-> g.slept]

VARIABLES
  fdtab,        \* kernel: descriptor -> counter object it refers to, 0 = closed
  count,        \* kernel: value of each counter object
  eventfd,      \* EventFd.eventfd of each instance slot: its descriptor, 0 = no instance
  origin,       \* the new() call an instance descends from: its number f for the
                \* instance new() returned, -f for a clone, 0 = no instance
  pc,           \* where each thread is
  arg,          \* the instance and value of the call a thread is in
  ret,          \* what the call that returned last returned
  hist,         \* the calls completed on the observed counter since its creation,
                \* kept while they are at most three with no write as the third,
                \* none was interrupted by a signal and no call on anything
                \* else (another counter, new, try_clone, as_raw_fd) completed among them
  acc,          \* sum of the successful writes since the last successful read
  owed,         \* per counter object, the sum of the values of the writes that
                \* returned success less the sum of the values that reads and
                \* try_reads returned (the two sums themselves grow without end)
  doubleClose   \* TRUE once close() was called on a descriptor that is not open

vars == <<fdtab, count, eventfd, origin, pc, arg, ret, hist, acc, owed, doubleClose>>

NoArg == [inst |-> 0, v |-> 0]
NoHist == [on |-> TRUE, ok |-> TRUE, ops |-> << >>]
Closed == [on |-> TRUE, ok |-> FALSE, ops |-> << >>]
\* the calls are not recorded at all
Unobserved == [on |-> FALSE, ok |-> FALSE, ops |-> << >>]

Live(i) == eventfd[i] > 0
Usable(i) == Live(i) /\ fdtab[eventfd[i]] # 0
Ctr(i) == fdtab[eventfd[i]]
FreeFds == {f \in Fds : fdtab[f] = 0}
FreeCtrs == {c \in Counters : \A f \in Fds : fdtab[f] # c}
FreeInsts == {i \in Insts : eventfd[i] = 0}
Min(S) == CHOOSE x \in S : \A y \in S : x <= y
Abs(n) == IF n < 0 THEN 0 - n ELSE n
\* the numbers of new() calls no instance descends from
FreeOrigins == {f \in Fds : \A i \in Insts : Abs(origin[i]) # f}
Borrowed(i) == \E t \in Threads : pc[t] # "idle" /\ arg[t].inst = i

\* own: the call went through the instance made by new(), not through a clone
Entry(o, i, v, r) == [op |-> o, own |-> (origin[i] > 0), v |-> v, res |-> r]
Observed == Min(Counters)
Elsewhere == IF hist.ops = << >> THEN hist ELSE Closed
Restart == IF hist.on THEN NoHist ELSE hist
Log(c, e) ==
  IF c # Observed THEN Elsewhere
  ELSE IF /\ hist.ok
          /\ Len(hist.ops) < 3
          /\ e.res.errno # "EINTR"
          /\ ~(e.op = "write" /\ Len(hist.ops) = 2)
  THEN [on |-> TRUE, ok |-> TRUE, ops |-> Append(hist.ops, e)]
  ELSE IF hist.on THEN Closed ELSE hist

\* ======================= the kernel calls =======================
\* Each gives the set of outcomes the call can have on a counter holding cnt.
\* A call that sleeps has, while it sleeps, the one outcome of being
\* interrupted by a signal (EINTR).

\* eventfd(0, 0): the lowest free descriptor, or failure (EMFILE, ENFILE, ENOMEM)
KEventfd ==
  {[ret |-> -1, errno |-> "EMFILE"]}
    \cup (IF FreeFds # {} THEN {[ret |-> Min(FreeFds), errno |-> "none"]} ELSE {})

\* the object eventfd() makes: one that no descriptor refers to yet
NewObjectFirst == Observed
NewObject == Min(FreeCtrs)

\* the count of the object eventfd(initval, 0) makes
NewCountOffByOne(initval) == initval + 1
NewCount(initval) == initval

\* write(fd, &v, 8)
WriteBlocks(cnt, v) == v # U64Max /\ cnt + v > CounterMax
KWriteClamp(cnt, v) ==
  IF v >= CounterMax THEN {[ret |-> -1, errno |-> "EINVAL", count |-> cnt]}
  ELSE IF cnt + v > CounterMax THEN {[ret |-> -1, errno |-> "EINTR", count |-> cnt]}
  ELSE {[ret |-> 8, errno |-> "none", count |-> cnt + v]}
KWriteStore(cnt, v) ==
  IF v = U64Max THEN {[ret |-> -1, errno |-> "EINVAL", count |-> cnt]}
  ELSE IF cnt + v > CounterMax THEN {[ret |-> -1, errno |-> "EINTR", count |-> cnt]}
  ELSE {[ret |-> 8, errno |-> "none", count |-> v]}
KWriteWrap(cnt, v) ==
  IF v = U64Max THEN {[ret |-> -1, errno |-> "EINVAL", count |-> cnt]}
  ELSE {[ret |-> 8, errno |-> "none", count |-> (cnt + v) % (U64Max + 1)]}
KWritePartial(cnt, v) ==
  IF v = U64Max THEN {[ret |-> -1, errno |-> "EINVAL", count |-> cnt]}
  ELSE IF cnt + v > CounterMax THEN {[ret |-> 8, errno |-> "none", count |-> CounterMax]}
  ELSE {[ret |-> 8, errno |-> "none", count |-> cnt + v]}
KWrite(cnt, v) ==
  IF v = U64Max THEN {[ret |-> -1, errno |-> "EINVAL", count |-> cnt]}
  ELSE IF cnt + v > CounterMax THEN {[ret |-> -1, errno |-> "EINTR", count |-> cnt]}
  ELSE {[ret |-> 8, errno |-> "none", count |-> cnt + v]}

\* read(fd, &buf, 8)
ReadBlocks(cnt) == cnt = 0
KReadKeep(cnt) ==
  IF cnt = 0 THEN {[ret |-> -1, errno |-> "EINTR", buf |-> 0, count |-> cnt]}
  ELSE {[ret |-> 8, errno |-> "none", buf |-> cnt, count |-> cnt]}
KReadZero(cnt) == {[ret |-> 8, errno |-> "none", buf |-> cnt, count |-> 0]}
KRead(cnt) ==
  IF cnt = 0 THEN {[ret |-> -1, errno |-> "EINTR", buf |-> 0, count |-> cnt]}
  ELSE {[ret |-> 8, errno |-> "none", buf |-> cnt, count |-> 0]}

\* poll(&pd, 1, 0) with pd.events = POLLIN
KPoll(cnt) ==
  IF cnt > 0 THEN {[ret |-> 1, errno |-> "none"]}
  ELSE {[ret |-> 0, errno |-> "none"], [ret |-> -1, errno |-> "EINTR"]}

\* dup(fd): the lowest free descriptor, referring to the same object, or failure
KDupSame(fd) ==
  {[ret |-> -1, errno |-> "EMFILE"]}
    \cup (IF FreeFds # {} THEN {[ret |-> fd, errno |-> "none"]} ELSE {})
KDup(fd) ==
  {[ret |-> -1, errno |-> "EMFILE"]}
    \cup (IF FreeFds # {} THEN {[ret |-> Min(FreeFds), errno |-> "none"]} ELSE {})

\* the object a descriptor made by dup(fd) refers to
DupObjectFresh(fd) == IF FreeCtrs # {} THEN Min(FreeCtrs) ELSE fdtab[fd]
DupObject(fd) == fdtab[fd]

\* close(fd): does the object go away with this descriptor
LastRefAlways(fd) == TRUE
LastRef(fd) == \A g \in Fds \ {fd} : fdtab[g] # fdtab[fd]

\* ======================= the wrapper =======================
Init ==
  /\ fdtab = [f \in Fds |-> 0]
  /\ count = [c \in Counters |-> 0]
  /\ eventfd = [i \in Insts |-> 0]
  /\ origin = [i \in Insts |-> 0]
  /\ pc = [t \in Threads |-> "idle"]
  /\ arg = [t \in Threads |-> NoArg]
  /\ ret = NoRet
  /\ hist = NoHist
  /\ acc = [c \in Counters |-> 0]
  /\ owed = [c \in Counters |-> 0]
  /\ doubleClose = FALSE

\* the same start, the completed calls not recorded
LiveInit ==
  /\ fdtab = [f \in Fds |-> 0]
  /\ count = [c \in Counters |-> 0]
  /\ eventfd = [i \in Insts |-> 0]
  /\ origin = [i \in Insts |-> 0]
  /\ pc = [t \in Threads |-> "idle"]
  /\ arg = [t \in Threads |-> NoArg]
  /\ ret = NoRet
  /\ hist = Unobserved
  /\ acc = [c \in Counters |-> 0]
  /\ owed = [c \in Counters |-> 0]
  /\ doubleClose = FALSE

\* if ret <= 0 { Err(last_os_error) } else { Ok(()) }
WriteResultShort(k) == IF k.ret <= 8 THEN Err(k.errno) ELSE Ok(0)
WriteResult(k) == IF k.ret <= 0 THEN Err(k.errno) ELSE Ok(0)
\* if ret <= 0 { Err(last_os_error) } else { Ok(buf) }
ReadResultRet(k) == IF k.ret <= 0 THEN Err(k.errno) ELSE Ok(k.ret)
ReadResultSwallow(k) == Ok(k.buf)
ReadResultTrunc(k) == IF k.ret <= 0 THEN Err(k.errno) ELSE Ok(k.buf % 2)
ReadResult(k) == IF k.ret <= 0 THEN Err(k.errno) ELSE Ok(k.buf)
\* if poll_status == 0 { NotReady } else if poll_status > 0 { self.read() } else { ReadFailed }
TryReadBranchSwapped(poll_status) ==
  IF poll_status > 0 THEN "NotReady" ELSE IF poll_status = 0 THEN "read" ELSE "ReadFailed"
TryReadBranchLax(poll_status) ==
  IF poll_status <= 0 THEN "NotReady" ELSE "read"
TryReadBranch(poll_status) ==
  IF poll_status = 0 THEN "NotReady" ELSE IF poll_status > 0 THEN "read" ELSE "ReadFailed"
\* .map_err(Error::ReadFailed)
MapErrReadFailed(r) == IF r.kind = "Err" THEN ReadFailed(r.errno) ELSE r

\* EventFd::new
New(t) ==
  /\ pc[t] = "idle"
  /\ FreeInsts # {}
  /\ \E k \in KEventfd :
       IF k.ret < 0
       THEN /\ ret' = Ret("new", Err(k.errno), 0, Did(0, 1, k.errno, 0, FALSE))
            /\ hist' = Elsewhere
            /\ UNCHANGED <<fdtab, count, eventfd, origin, acc, owed>>
       ELSE LET i == Min(FreeInsts)
                c == NewObject
            IN /\ fdtab' = [fdtab EXCEPT ![k.ret] = c]
               /\ count' = [count EXCEPT ![c] = NewCount(InitVal)]
               /\ hist' = IF c = Observed THEN Restart ELSE Elsewhere
               /\ acc' = [acc EXCEPT ![c] = 0]
               /\ owed' = [owed EXCEPT ![c] = 0]
               /\ eventfd' = [eventfd EXCEPT ![i] = k.ret]
               /\ origin' = [origin EXCEPT ![i] = Min(FreeOrigins)]
               /\ ret' = Ret("new", Ok(i), 0, Did(Min(FreeOrigins), 1, k.errno, 0, FALSE))
  /\ UNCHANGED <<pc, arg, doubleClose>>

\* the end of a write call with kernel outcome k
WriteDone(t, i, v, k) ==
  LET c == Ctr(i)
      r == WriteResult(k)
  IN /\ count' = [count EXCEPT ![c] = k.count]
     /\ acc' = [acc EXCEPT ![c] = IF r.kind = "Ok" THEN @ + v ELSE @]
     /\ owed' = [owed EXCEPT ![c] = IF r.kind = "Ok" THEN @ + v ELSE @]
     /\ hist' = Log(c, Entry("write", i, v, r))
     /\ ret' = Ret("write", r, 0, Did(Abs(origin[i]), 1, k.errno, 0, pc[t] = "write"))
     /\ pc' = [pc EXCEPT ![t] = "idle"]
     /\ arg' = [arg EXCEPT ![t] = NoArg]
     /\ UNCHANGED <<fdtab, eventfd, origin, doubleClose>>

\* EventFd::write: returns at once, or sleeps in the kernel
Write(t, i, v) ==
  /\ pc[t] = "idle"
  /\ Usable(i)
  /\ IF WriteBlocks(count[Ctr(i)], v)
     THEN /\ pc' = [pc EXCEPT ![t] = "write"]
          /\ arg' = [arg EXCEPT ![t] = [inst |-> i, v |-> v]]
          /\ UNCHANGED <<ret, fdtab, count, eventfd, origin, hist, acc, owed, doubleClose>>
     ELSE \E k \in KWrite(count[Ctr(i)], v) : WriteDone(t, i, v, k)

\* a sleeping write returns: room was made, or a signal arrived
WriteWake(t) ==
  /\ pc[t] = "write"
  /\ Usable(arg[t].inst)
  /\ \E k \in KWrite(count[Ctr(arg[t].inst)], arg[t].v) :
       WriteDone(t, arg[t].inst, arg[t].v, k)

\* the end of a read call with kernel outcome k; o is the method that returns
ReadDone(t, i, o, k) ==
  LET c == Ctr(i)
      r == IF o = "try_read" THEN MapErrReadFailed(ReadResult(k)) ELSE ReadResult(k)
  IN /\ count' = [count EXCEPT ![c] = k.count]
     /\ acc' = [acc EXCEPT ![c] = IF r.kind = "Ok" THEN 0 ELSE @]
     /\ owed' = [owed EXCEPT ![c] = IF r.kind = "Ok" THEN @ - r.val ELSE @]
     /\ hist' = Log(c, Entry(o, i, 0, r))
     /\ ret' = Ret(o, r, acc[c], Did(Abs(origin[i]), IF o = "try_read" THEN 2 ELSE 1, k.errno,
                                  IF o = "try_read" THEN 1 ELSE 0, pc[t] = "read"))
     /\ pc' = [pc EXCEPT ![t] = "idle"]
     /\ arg' = [arg EXCEPT ![t] = NoArg]
     /\ UNCHANGED <<fdtab, eventfd, origin, doubleClose>>

\* EventFd::read: returns at once, or sleeps in the kernel
Read(t, i) ==
  /\ pc[t] = "idle"
  /\ Usable(i)
  /\ IF ReadBlocks(count[Ctr(i)])
     THEN /\ pc' = [pc EXCEPT ![t] = "read"]
          /\ arg' = [arg EXCEPT ![t] = [inst |-> i, v |-> 0]]
          /\ UNCHANGED <<ret, fdtab, count, eventfd, origin, hist, acc, owed, doubleClose>>
     ELSE \E k \in KRead(count[Ctr(i)]) : ReadDone(t, i, "read", k)

\* a sleeping read returns: the counter became non-zero, or a signal arrived
ReadWake(t) ==
  /\ pc[t] = "read"
  /\ Usable(arg[t].inst)
  /\ \E k \in KRead(count[Ctr(arg[t].inst)]) : ReadDone(t, arg[t].inst, "read", k)

\* EventFd::try_read up to the branch on poll_status.  pd.revents is left
\* unset before poll() and is never read afterwards: only poll's return
\* value decides the branch.
TryReadPoll(t, i) ==
  /\ pc[t] = "idle"
  /\ Usable(i)
  /\ \E k \in KPoll(count[Ctr(i)]) :
       IF TryReadBranch(k.ret) = "read"
       THEN /\ pc' = [pc EXCEPT ![t] = "try_read_read"]
            /\ arg' = [arg EXCEPT ![t] = [inst |-> i, v |-> 0]]
            /\ UNCHANGED <<ret, hist>>
       ELSE LET r == IF TryReadBranch(k.ret) = "NotReady"
                     THEN NotReady ELSE ReadFailed(k.errno)
            IN /\ ret' = Ret("try_read", r, acc[Ctr(i)], Did(Abs(origin[i]), 1, k.errno, k.ret, FALSE))
               /\ hist' = Log(Ctr(i), Entry("try_read", i, 0, r))
               /\ UNCHANGED <<pc, arg>>
  /\ UNCHANGED <<fdtab, count, eventfd, origin, acc, owed, doubleClose>>

\* EventFd::try_read, the self.read() of the ready branch
TryReadRead(t) ==
  /\ pc[t] = "try_read_read"
  /\ Usable(arg[t].inst)
  /\ \E k \in KRead(count[Ctr(arg[t].inst)]) : ReadDone(t, arg[t].inst, "try_read", k)

\* EventFd::try_clone
TryClone(t, i) ==
  /\ pc[t] = "idle"
  /\ Usable(i)
  /\ FreeInsts # {}
  /\ \E k \in KDup(eventfd[i]) :
       IF k.ret < 0
       THEN /\ ret' = Ret("try_clone", Err(k.errno), 0, Did(Abs(origin[i]), 1, k.errno, 0, FALSE))
            /\ UNCHANGED <<fdtab, eventfd, origin>>
       ELSE LET j == Min(FreeInsts)
            IN /\ fdtab' = [fdtab EXCEPT ![k.ret] = DupObject(eventfd[i])]
               /\ eventfd' = [eventfd EXCEPT ![j] = k.ret]
               /\ origin' = [origin EXCEPT ![j] = 0 - Abs(origin[i])]
               /\ ret' = Ret("try_clone", Ok(j), 0, Did(Abs(origin[i]), 1, k.errno, 0, FALSE))
  /\ hist' = Elsewhere
  /\ UNCHANGED <<count, pc, arg, acc, owed, doubleClose>>

\* self.eventfd.as_raw_fd(): the descriptor number, read from the File
RawFdObject(i) == fdtab[eventfd[i]]
RawFd(i) == eventfd[i]

\* <EventFd as AsRawFd>::as_raw_fd
AsRawFd(t, i) ==
  /\ pc[t] = "idle"
  /\ Live(i)
  /\ ret' = Ret("as_raw_fd", Ok(RawFd(i)), 0, Did(Abs(origin[i]), 0, "none", 0, FALSE))
  /\ hist' = Elsewhere
  /\ UNCHANGED <<fdtab, count, eventfd, origin, pc, arg, acc, owed, doubleClose>>

\* an EventFd goes out of scope: its File closes the descriptor
Drop(t, i) ==
  /\ pc[t] = "idle"
  /\ Live(i)
  /\ ~Borrowed(i)
  /\ LET fd == eventfd[i]
         c == fdtab[fd]
     IN IF c = 0
        THEN /\ doubleClose' = TRUE
             /\ hist' = Elsewhere
             /\ UNCHANGED <<fdtab, count, acc, owed>>
        ELSE /\ fdtab' = [fdtab EXCEPT ![fd] = 0]
             /\ IF LastRef(fd)
                THEN /\ count' = [count EXCEPT ![c] = 0]
                     /\ hist' = IF c = Observed THEN Restart ELSE Elsewhere
                     /\ acc' = [acc EXCEPT ![c] = 0]
                     /\ owed' = [owed EXCEPT ![c] = 0]
                ELSE /\ hist' = Log(c, Entry("drop", i, 0, Ok(0)))
                     /\ UNCHANGED <<count, acc, owed>>
             /\ UNCHANGED doubleClose
  /\ eventfd' = [eventfd EXCEPT ![i] = 0]
  /\ origin' = [origin EXCEPT ![i] = 0]
  /\ ret' = Ret("drop", Ok(0), 0, Did(Abs(origin[i]), 1, "none", 0, FALSE))
  /\ UNCHANGED <<pc, arg>>

NewStep == \E t \in Threads : New(t)
WriteStep == \E t \in Threads, i \in Insts, v \in U64 : Write(t, i, v)
WriteWakeStep == \E t \in Threads : WriteWake(t)
ReadStep == \E t \in Threads, i \in Insts : Read(t, i)
ReadWakeStep == \E t \in Threads : ReadWake(t)
TryReadPollStep == \E t \in Threads, i \in Insts : TryReadPoll(t, i)
TryReadReadStep == \E t \in Threads : TryReadRead(t)
TryCloneStep == \E t \in Threads, i \in Insts : TryClone(t, i)
AsRawFdStep == \E t \in Threads, i \in Insts : AsRawFd(t, i)
DropStep == \E t \in Threads, i \in Insts : Drop(t, i)

Next ==
  \/ NewStep
  \/ WriteStep
  \/ WriteWakeStep
  \/ ReadStep
  \/ ReadWakeStep
  \/ TryReadPollStep
  \/ TryReadReadStep
  \/ TryCloneStep
  \/ AsRawFdStep
  \/ DropStep

Spec == Init /\ [][Next]_vars

\* The kernel wakes the sleepers of a counter when a read() makes room or a
\* write() makes it non-zero, and the scheduler runs a woken thread: a
\* sleeper whose call can succeed, and stays able to, does return.  Signals
\* (the EINTR outcomes) are not promised to arrive.
WriteWakeOk(t) == WriteWake(t) /\ ret'.kind = "Ok"
ReadWakeOk(t) == ReadWake(t) /\ ret'.kind = "Ok"
LiveSpec ==
  /\ LiveInit
  /\ [][Next]_vars
  /\ \A t \in Threads : WF_vars(WriteWakeOk(t)) /\ WF_vars(ReadWakeOk(t))

TypeOK ==
  /\ fdtab \in [Fds -> Counters \cup {0}]
  /\ count \in [Counters -> 0..CounterMax]
  /\ eventfd \in [Insts -> Fds \cup {0}]
  /\ pc \in [Threads -> {"idle", "write", "read", "try_read_read"}]
  /\ doubleClose \in BOOLEAN

\* ======================= the claims =======================
\* a read() issued now on a counter holding cnt returns Ok(v) without sleeping
ReadReturns(cnt, v) ==
  /\ ~ReadBlocks(cnt)
  /\ \A k \in KRead(cnt) : ReadResult(k) = Ok(v)
\* the n-th call of the history
Nth(n) == hist.ops[n]
Has(n) == hist.ok /\ Len(hist.ops) >= n
Is(n) == hist.ok /\ Len(hist.ops) = n
WroteOk(n) == Nth(n).op = "write" /\ Nth(n).res.kind = "Ok"
\* the live instances descending from the same new() as those of counter c
Family(c) ==
  {j \in Insts : Live(j) /\ \E i \in Insts :
                              Usable(i) /\ Ctr(i) = c /\ Abs(origin[j]) = Abs(origin[i])}

\* C1 as stated: on a fresh counter, for every u64 v (0 and 2^64-1 included),
\* write(v) succeeds and the read() after it returns v.
C1_AnyValue ==
  (Is(1) /\ Nth(1).op = "write")
    => (Nth(1).res.kind = "Ok" /\ ReadReturns(count[Observed], Nth(1).v))

\* C1 amended: on a fresh counter, for every v with 1 <= v <= 2^64-2, write(v)
\* succeeds, the read() after it does not sleep, and read() on the same
\* instance returns exactly v.
C1_InRange ==
  /\ (Is(1) /\ Nth(1).op = "write" /\ Nth(1).v \in 1..CounterMax)
       => (Nth(1).res.kind = "Ok" /\ ReadReturns(count[Observed], Nth(1).v))
  /\ (Has(2) /\ WroteOk(1) /\ Nth(1).v \in 1..CounterMax
        /\ Nth(2).op = "read" /\ Nth(2).own = Nth(1).own)
       => Nth(2).res = Ok(Nth(1).v)
C1_Witness ==
  /\ Is(2)
  /\ Nth(1) = [op |-> "write", own |-> TRUE, v |-> CounterMax, res |-> Ok(0)]
  /\ Nth(2) = [op |-> "read", own |-> TRUE, v |-> 0, res |-> Ok(CounterMax)]

\* C2: try_read never sleeps: a thread inside try_read's read() always finds
\* the counter non-zero, whatever the other threads did since its poll().
C2_NeverBlocks ==
  \A t \in Threads :
    (pc[t] = "try_read_read" /\ Usable(arg[t].inst))
      => ~ReadBlocks(count[Ctr(arg[t].inst)])

\* C3 as stated: with A and its duplicate B on a counter holding 0, for every
\* non-zero v, write(v) through one succeeds and read() through the other returns v.
C3_AnyNonZero ==
  (Is(1) /\ Nth(1).op = "write" /\ Nth(1).v # 0 /\ Cardinality(Family(Observed)) = 2)
    => /\ Nth(1).res.kind = "Ok"
       /\ \A j \in Family(Observed) : Usable(j) /\ ReadReturns(count[Ctr(j)], Nth(1).v)

\* C3 amended: the same for every v with 1 <= v <= 2^64-2 (write rejects
\* 2^64-1): after write(v) through one instance every instance of the family
\* reads v, and a read() through the other instance returns v, in both directions.
C3_Shared ==
  /\ (Is(1) /\ Nth(1).op = "write" /\ Nth(1).v \in 1..CounterMax
        /\ Cardinality(Family(Observed)) = 2)
       => /\ Nth(1).res.kind = "Ok"
          /\ \A j \in Family(Observed) :
               Usable(j) /\ ReadReturns(count[Ctr(j)], Nth(1).v)
  /\ (Has(2) /\ WroteOk(1) /\ Nth(1).v \in 1..CounterMax
        /\ Nth(2).op = "read" /\ Nth(2).own # Nth(1).own)
       => Nth(2).res = Ok(Nth(1).v)
C3_Witness ==
  /\ Is(2)
  /\ Nth(1) = [op |-> "write", own |-> TRUE, v |-> CounterMax, res |-> Ok(0)]
  /\ Nth(2) = [op |-> "read", own |-> FALSE, v |-> 0, res |-> Ok(CounterMax)]

\* C4: no addition is lost and every successful read or try_read returns the
\* sum of the writes applied to the counter since the previous successful
\* read (or creation): the counter always holds that sum, and the value a
\* read returned is the sum that was due when it ran.
C4_ReadsReturnSum ==
  /\ \A c \in Counters : count[c] = acc[c]
  /\ (ret.op \in {"read", "try_read"} /\ ret.kind = "Ok") => ret.val = ret.due
C4_Witness ==
  /\ Is(3)
  /\ WroteOk(1) /\ WroteOk(2) /\ Nth(1).own # Nth(2).own
  /\ Nth(1).v > 0 /\ Nth(2).v > 0
  /\ Nth(3).op = "read" /\ Nth(3).res = Ok(Nth(1).v + Nth(2).v)
  /\ ret.op = "read" /\ ret.val = ret.due

\* C5 as stated: on a counter holding 0, write(a); write(b); read() returns
\* a + b whenever a + b does not exceed the counter's maximum.
C5_AnySum ==
  (Is(2) /\ WroteOk(1) /\ WroteOk(2))
    => ReadReturns(count[Observed], Nth(1).v + Nth(2).v)

\* C5 amended: the same whenever a + b is at least 1 (and at most the
\* maximum): the read() does not sleep and returns a + b.
C5_Accumulate ==
  /\ (Is(2) /\ WroteOk(1) /\ WroteOk(2) /\ Nth(1).v + Nth(2).v >= 1)
       => ReadReturns(count[Observed], Nth(1).v + Nth(2).v)
  /\ (Is(3) /\ WroteOk(1) /\ WroteOk(2) /\ Nth(3).op = "read")
       => Nth(3).res = Ok(Nth(1).v + Nth(2).v)
C5_Witness ==
  /\ Is(3)
  /\ WroteOk(1) /\ WroteOk(2) /\ Nth(1).v = 1 /\ Nth(2).v = CounterMax - 1
  /\ Nth(3).op = "read" /\ Nth(3).res = Ok(CounterMax)

C8_AnyWritten ==
  (Has(2) /\ WroteOk(1) /\ Nth(2).op = "try_read")
    => Nth(2).res = Ok(Nth(1).v)

\* C8 amended: for every written value v >= 1, with nothing in between,
\* write(v) followed by try_read() returns Ok(v) and leaves the counter at 0,
\* as write(v) followed by read() does.
C8_LikeRead ==
  /\ (Has(2) /\ WroteOk(1) /\ Nth(1).v >= 1 /\ Nth(2).op \in {"try_read", "read"})
       => Nth(2).res = Ok(Nth(1).v)
  /\ (Is(2) /\ WroteOk(1) /\ Nth(1).v >= 1 /\ Nth(2).op \in {"try_read", "read"})
       => count[Observed] = 0
C8_Witness ==
  /\ Is(2)
  /\ WroteOk(1) /\ Nth(1).v = CounterMax
  /\ Nth(2).op = "try_read" /\ Nth(2).res = Ok(CounterMax)
  /\ count[Observed] = 0

\* C9: every descriptor is released exactly once: close() is never called on
\* a descriptor that is not open, the open descriptors are exactly those
\* owned by the instances that exist (none stays open after its instance is
\* dropped or after a failed new/try_clone), and no two instances own the same.
C9_ReleasedOnce ==
  /\ ~doubleClose
  /\ \A f \in Fds : fdtab[f] # 0 <=> \E i \in Insts : eventfd[i] = f
  /\ \A i, j \in Insts : (Live(i) /\ Live(j) /\ i # j) => eventfd[i] # eventfd[j]
C9_Witness ==
  /\ ret.op = "drop"
  /\ \A f \in Fds : fdtab[f] = 0
  /\ \A i \in Insts : eventfd[i] = 0
  /\ ~doubleClose

\* C10: dropping an instance leaves every other instance of the same counter
\* usable, on the same counter, with the value accumulated before the drop
\* (a read through the survivor returns it).
C10_Drop(i) ==
  (Usable(i) /\ eventfd'[i] = 0)
    => \A j \in Insts \ {i} :
         (Usable(j) /\ Ctr(j) = Ctr(i))
           => /\ eventfd'[j] = eventfd[j]
              /\ fdtab'[eventfd[j]] = fdtab[eventfd[j]]
              /\ count'[Ctr(j)] = count[Ctr(j)]
              /\ (count[Ctr(j)] > 0 => ReadReturns(count'[Ctr(j)], count[Ctr(j)]))
C10_IndependentLifetimes == [][\A i \in Insts : C10_Drop(i)]_vars
C10_Witness ==
  /\ Is(3)
  /\ WroteOk(1) /\ Nth(1).own /\ Nth(1).v = CounterMax
  /\ Nth(2).op = "drop" /\ Nth(2).own
  /\ Nth(3).op = "read" /\ ~Nth(3).own /\ Nth(3).res = Ok(CounterMax)
\* the parts of C11
C11_Handles ==
  /\ \A i, j \in Insts : (Live(i) /\ Live(j) /\ i # j) => eventfd[i] # eventfd[j]
  /\ (ret.op = "try_clone" /\ ret.kind = "Ok") =>
       /\ Live(ret.val)
       /\ \E i \in Insts \ {ret.val} : Live(i) /\ Abs(origin[i]) = ret.fam
       /\ \A i \in Insts \ {ret.val} : (Live(i) /\ Abs(origin[i]) = ret.fam) =>
            /\ eventfd[i] # eventfd[ret.val]
            /\ Ctr(i) = Ctr(ret.val)
            /\ Ctr(i) # 0
  /\ ret.op = "as_raw_fd" =>
       /\ fdtab[ret.val] # 0
       /\ \E i \in Insts : eventfd[i] = ret.val /\ Abs(origin[i]) = ret.fam
C11_AsRawFdReadsOnly ==
  ret'.op = "as_raw_fd" => UNCHANGED <<fdtab, count, eventfd, origin>>
\* C11  No two live instances hold the same descriptor; a successful
\* try_clone leaves a new instance whose descriptor differs from that of the
\* instance it was cloned from and refers to the same counter; as_raw_fd
\* returns the descriptor of an instance that still owns it, open, and the
\* call changes neither the descriptor table, the counters nor the instances.
C11_UniqueHandles == []C11_Handles /\ [][C11_AsRawFdReadsOnly]_vars
\* a clone exists, the first instance is gone, and the clone's descriptor
\* was read
C11_Witness ==
  /\ ret.op = "as_raw_fd"
  /\ \E i \in Insts : eventfd[i] = ret.val /\ origin[i] < 0 /\ Usable(i)
  /\ Cardinality({i \in Insts : Live(i)}) = 1

\* the parts of C12
C12_InRange ==
  /\ \A c \in Counters : count[c] \in 0..CounterMax
  /\ \A t \in Threads : pc[t] = "write" => arg[t].v # U64Max
C12_WriteStep ==
  /\ \A c \in Counters :
       count'[c] > count[c] => (ret'.op = "write" /\ ret'.kind = "Ok")
  /\ (ret'.op = "write" /\ ret'.kind = "Ok") =>
       \A c \in Counters : count'[c] >= count[c]
  /\ (ret'.op = "write" /\ ret'.kind # "Ok") => count' = count
  /\ \A t \in Threads :
       (/\ pc[t] = "write"
        /\ pc'[t] = "idle"
        /\ WriteBlocks(count[Ctr(arg[t].inst)], arg[t].v)) =>
         (ret'.kind # "Ok" /\ count' = count)
\* C12  Every counter stays within 0 .. its maximum; a write that would
\* take the counter past the maximum has not returned while that is so (it
\* sleeps) and when it returns an error the counter is as it was; a write
\* that returns success has only raised the counter, never wrapped it.
C12_NoOverflow == []C12_InRange /\ [][C12_WriteStep]_vars
\* a full counter with a writer asleep on it
C12_Witness ==
  \E t \in Threads :
    /\ pc[t] = "write"
    /\ Usable(arg[t].inst)
    /\ count[Ctr(arg[t].inst)] = CounterMax
    /\ ret.op = "write"
    /\ ret.errno = "EINTR"

\* the parts of C13
C13_Room(t) ==
  /\ pc[t] = "write"
  /\ ~WriteBlocks(count[Ctr(arg[t].inst)], arg[t].v)
C13_Done(t) ==
  \/ pc[t] = "idle" /\ ret.op = "write" /\ ret.kind = "Ok" /\ ret.slept
  \/ pc[t] = "write" /\ WriteBlocks(count[Ctr(arg[t].inst)], arg[t].v)
C13_AddedInFull ==
  \A t \in Threads :
    (pc[t] = "write" /\ pc'[t] = "idle" /\ ret'.kind = "Ok") =>
      count'[Ctr(arg[t].inst)] = count[Ctr(arg[t].inst)] + arg[t].v
\* C13  A write asleep because its value did not fit, for which a reader
\* has made room, returns success unless another write takes the room
\* first; a write that returns success after sleeping has raised the
\* counter by exactly its value.
C13_BlockedWriteCompletes ==
  /\ \A t \in Threads : C13_Room(t) ~> C13_Done(t)
  /\ [][C13_AddedInFull]_vars
\* a write that slept has returned success
C13_Witness == ret.op = "write" /\ ret.kind = "Ok" /\ ret.slept

\* C14  try_read ends in one of three ways, chosen by what poll() with
\* timeout 0 returned: 0 -> NotReady, after that one kernel call, none
\* failed; > 0 -> what read() gives, the count or its failure as ReadFailed
\* with read's errno; < 0 -> ReadFailed with poll's errno.  NotReady is
\* never the answer to a failed kernel call, and ReadFailed is returned
\* only when a kernel call failed.
C14_ThreeOutcomes ==
  ret.op = "try_read" =>
    /\ ret.kind \in {"Ok", "NotReady", "ReadFailed"}
    /\ ret.poll = 0 <=> ret.kind = "NotReady"
    /\ ret.poll = 0 => (ret.sys = 1 /\ ret.kerr = "none")
    /\ ret.poll > 0 =>
         /\ ret.sys = 2
         /\ \/ ret.kind = "Ok" /\ ret.val = ret.due /\ ret.kerr = "none"
            \/ ret.kind = "ReadFailed" /\ ret.kerr # "none" /\ ret.errno = ret.kerr
    /\ ret.poll < 0 =>
         /\ ret.sys = 1
         /\ ret.kind = "ReadFailed" /\ ret.kerr # "none" /\ ret.errno = ret.kerr
    /\ ret.kind = "NotReady" => ret.kerr = "none"
    /\ ret.kind = "ReadFailed" => ret.kerr # "none"
\* poll() itself failed
C14_Witness == ret.op = "try_read" /\ ret.poll < 0 /\ ret.kind = "ReadFailed"

\* the parts of C15
C15_Failed ==
  /\ ret'.op \in {"write", "read", "try_read", "try_clone"}
  /\ ret'.kind \in {"Err", "NotReady", "ReadFailed"}
C15_Kept ==
  /\ UNCHANGED <<fdtab, count, eventfd, origin, acc, owed, doubleClose>>
  /\ \A t \in Threads : pc'[t] # pc[t] => (pc'[t] = "idle" \/ pc[t] = "idle")
  /\ Cardinality({t \in Threads : pc'[t] # pc[t]}) <= 1
\* C15  A step in which write, read, try_read or try_clone returns an
\* error (NotReady included) leaves every descriptor as open as it was,
\* every counter at its value and the instances as they were (none made,
\* none lost), and wakes or blocks no other thread: the calls that follow
\* start from the state the failed call started from.
C15_FailureKeepsState == [][C15_Failed => C15_Kept]_vars
\* a write failed on a live instance whose counter holds something
C15_Witness ==
  /\ ret.op = "write"
  /\ ret.kind = "Err"
  /\ \E i \in Insts : Usable(i) /\ Abs(origin[i]) = ret.fam /\ count[Ctr(i)] > 0

C17_OnceAndSurfaced ==
  /\ ret.op \in {"new", "write", "read", "try_clone"} => ret.sys = 1
  /\ ret.op = "try_read" =>
       /\ ret.sys \in {1, 2}
       /\ ret.sys = 2 <=> ret.poll > 0
  /\ ret.kerr # "none" =>
       /\ ret.kind \in {"Err", "ReadFailed"}
       /\ ret.errno = ret.kerr
  /\ ret.kind = "Ok" => ret.kerr = "none"
\* an interrupted read() was not issued again: the caller got EINTR
C17_Witness ==
  /\ ret.op = "read"
  /\ ret.slept
  /\ ret.kerr = "EINTR"
  /\ ret.kind = "Err"

\* the parts of C18
C18_NonZero == (ret.op = "read" /\ ret.kind = "Ok") => ret.val > 0
C18_Asleep(t) == pc[t] = "read" /\ count[Ctr(arg[t].inst)] = 0
C18_Woken(t) == pc[t] = "read" /\ count[Ctr(arg[t].inst)] > 0
C18_Alone(t) == \A u \in Threads \ {t} : pc[u] # "read"
C18_GotIt(t) == pc[t] = "idle" /\ ret.op = "read" /\ ret.kind = "Ok" /\ ret.slept
C18_ReturnsAfterWrite ==
  \A t \in Threads :
    (pc[t] = "read" /\ pc'[t] = "idle") => count[Ctr(arg[t].inst)] > 0
C18_ReturnsValueAfterWrite ==
  \A t \in Threads :
    (pc[t] = "read" /\ pc'[t] = "idle") =>
      IF ret'.kind = "Ok"
      THEN /\ count[Ctr(arg[t].inst)] > 0
           /\ ret'.val = count[Ctr(arg[t].inst)]
      ELSE /\ ret'.errno = "EINTR"
           /\ count' = count
\* C18 as the claim has it: a successful read never returns 0; a read asleep
\* on a zero counter does not return before the counter is non-zero; the
\* only sleeping reader of a counter that became non-zero returns.
C18_BlocksUntilWritten ==
  /\ []C18_NonZero
  /\ [][C18_ReturnsAfterWrite]_vars
  /\ \A t \in Threads : (C18_Woken(t) /\ C18_Alone(t)) ~> (pc[t] = "idle")
\* C18  A successful read never returns 0; a read asleep on a zero counter
\* returns a value only once the counter is non-zero, and that value is the
\* count; before that it can only return the error of an interrupting
\* signal, the counter untouched; a sleeping reader whose counter became
\* non-zero returns the value unless another read takes it first.
C18_ValueOnlyAfterWrite ==
  /\ []C18_NonZero
  /\ [][C18_ReturnsValueAfterWrite]_vars
  /\ \A t \in Threads : C18_Woken(t) ~> (C18_GotIt(t) \/ C18_Asleep(t))
\* a read that slept has returned what was written meanwhile
C18_Witness == ret.op = "read" /\ ret.kind = "Ok" /\ ret.slept /\ ret.val > 0

\* C19  In every state and for every counter object, what the successful
\* writes added less what the successful reads and try_reads returned,
\* through whatever handle and thread, is what the counter holds: nothing
\* written is lost and nothing is returned to two readers.
C19_DeliveredOnce == \A c \in Counters : owed[c] = count[c]
\* of two readers of one counter, one got what was written and the other
\* is still asleep on the emptied counter
C19_Witness ==
  /\ ret.op \in {"read", "try_read"}
  /\ ret.kind = "Ok"
  /\ ret.val > 0
  /\ \E t \in Threads :
       /\ pc[t] \in {"read", "try_read_read"}
       /\ Abs(origin[arg[t].inst]) = ret.fam
       /\ count[Ctr(arg[t].inst)] = 0

\* the parts of C20
C20_Separate ==
  \A i, j \in Insts :
    (Usable(i) /\ Usable(j) /\ Abs(origin[i]) # Abs(origin[j])) => Ctr(i) # Ctr(j)
C20_Sleeps(t, cnt) ==
  \/ pc[t] = "write" /\ WriteBlocks(cnt, arg[t].v)
  \/ pc[t] \in {"read", "try_read_read"} /\ ReadBlocks(cnt)
C20_Step ==
  /\ \A c \in Counters :
       count'[c] # count[c] =>
         \A i \in Insts : (Usable(i) /\ Ctr(i) = c) => Abs(origin[i]) = ret'.fam
  /\ \A t \in Threads :
       (pc[t] # "idle" /\ Abs(origin[arg[t].inst]) # ret'.fam) =>
         /\ pc'[t] = pc[t]
         /\ arg'[t] = arg[t]
         /\ C20_Sleeps(t, count[Ctr(arg[t].inst)])
              <=> C20_Sleeps(t, count'[Ctr(arg[t].inst)])
\* C20  Instances that descend from different new() calls never refer to
\* the same counter; a step changes the value of a counter only if the call
\* that returns in it was made through an instance of that counter, and it
\* leaves every thread inside a call on another counter where it is, asleep
\* if it was asleep.
C20_Independent == []C20_Separate /\ [][C20_Step]_vars
\* a write through one counter has returned while a reader of the other
\* counter sleeps on
C20_Witness ==
  \E t \in Threads :
    /\ pc[t] = "read"
    /\ count[Ctr(arg[t].inst)] = 0
    /\ ret.op = "write"
    /\ ret.kind = "Ok"
    /\ ret.fam # Abs(origin[arg[t].inst])
    /\ \E c \in Counters : count[c] > 0

====
